---- MODULE Spec2Model ----
(***************************************************************************)
(* Model of the KBS client plugin of the confidential data hub             *)
(* (confidential-data-hub/kms/src/plugins/kbs/mod.rs).                     *)
(*                                                                         *)
(* Text is modelled as a sequence of one-character strings, so that the    *)
(* command-line reader's splitting and prefix matching are computed        *)
(* character by character, as the code computes them.                      *)
(***************************************************************************)
EXTENDS Integers, Sequences, FiniteSets, TLC

\* ------------------------------------------------------------------ bounds
\* Number of concurrent tasks calling the facade.
NumTasks == 2
\* Total number of new/get_secret calls started in one behaviour.
MaxCalls == 3
\* Longest parameter value (the text after `agent.aa_kbc_params=`) probed.
MaxVal == 4

Tasks == 1..NumTasks

\* ------------------------------------------------------------ text helpers
\* The literal "agent.aa_kbc_params=" (mod.rs lines 112 and 116).
AA_PREFIX ==
  <<"a","g","e","n","t",".","a","a","_","k","b","c","_","p","a","r","a","m","s","=">>

\* The literal "::" (mod.rs line 118).
SEP == <<":", ":">>

\* The backend tokens matched by RealClient::new (mod.rs lines 38, 40, 41).
CC_KBC == <<"c","c","_","k","b","c">>
ONLINE_SEV_KBC == <<"o","n","l","i","n","e","_","s","e","v","_","k","b","c">>
OFFLINE_FS_KBC == <<"o","f","f","l","i","n","e","_","f","s","_","k","b","c">>

\* char::is_ascii_whitespace: space, tab, line feed, form feed, carriage return.
IsAsciiWhitespace(c) == c \in {" ", "\t", "\n", "\f", "\r"}

\* str::starts_with
StartsWith(s, p) ==
  /\ Len(s) >= Len(p)
  /\ \A i \in 1..Len(p) : s[i] = p[i]

\* str::strip_prefix followed by expect("must have a prefix")
StripPrefix(s, p) == SubSeq(s, Len(p) + 1, Len(s))

\* str::split_ascii_whitespace: the maximal runs of non-whitespace characters,
\* in order; no empty token is produced.
RECURSIVE SplitWs(_, _, _)
SplitWs(s, i, cur) ==
  IF i > Len(s)
    THEN IF cur = <<>> THEN <<>> ELSE <<cur>>
    ELSE IF IsAsciiWhitespace(s[i])
           THEN IF cur = <<>>
                  THEN SplitWs(s, i + 1, <<>>)
                  ELSE <<cur>> \o SplitWs(s, i + 1, <<>>)
           ELSE SplitWs(s, i + 1, Append(cur, s[i]))

SplitAsciiWhitespace(s) == SplitWs(s, 1, <<>>)

\* str::split("::"): scans left to right for non-overlapping matches of the
\* separator; yields the text between matches, empty pieces included.
RECURSIVE SplitSep(_, _, _)
SplitSep(s, i, cur) ==
  IF i > Len(s)
    THEN <<cur>>
    ELSE IF i + 1 <= Len(s) /\ s[i] = SEP[1] /\ s[i + 1] = SEP[2]
           THEN <<cur>> \o SplitSep(s, i + 2, <<>>)
           ELSE SplitSep(s, i + 1, Append(cur, s[i]))

SplitOnSep(s) == SplitSep(s, 1, <<>>)

\* Iterator::find(|para| para.starts_with("agent.aa_kbc_params=")):
\* index of the first token with the prefix, 0 when there is none.
RECURSIVE FindFrom(_, _)
FindFrom(toks, i) ==
  IF i > Len(toks) THEN 0
  ELSE IF StartsWith(toks[i], AA_PREFIX) THEN i
  ELSE FindFrom(toks, i + 1)

\* A search that keeps the last token with the prefix.
FindParamLast(toks) ==
  LET S == {i \in 1..Len(toks) : StartsWith(toks[i], AA_PREFIX)}
  IN IF S = {} THEN 0 ELSE CHOOSE i \in S : \A j \in S : j <= i

FindParam(toks) == FindFrom(toks, 1)

\* ------------------------------------------------------------- the reader
\* Results of the reader: a pair, or one of its failures.
RdOk(k, h) == [tag |-> "ok", kbc |-> k, host |-> h]
RdErr(e) == [tag |-> e, kbc |-> <<>>, host |-> <<>>]

\* A length test that only rejects too few parts.
PartsTooFew(parts) == Len(parts) < 2

\* The length test of mod.rs line 121.
PartsMalformed(parts) == Len(parts) # 2

\* get_aa_params_from_cmdline, after the file has been read into `cmdline`.
ParseCmdline(cmdline) ==
  LET toks == SplitAsciiWhitespace(cmdline)
      idx == FindParam(toks)
  IN IF idx = 0
       THEN RdErr("MissingParameter")
       ELSE LET parts == SplitOnSep(StripPrefix(toks[idx], AA_PREFIX))
            IN IF PartsMalformed(parts)
                 THEN RdErr("MalformedParameter")
                 ELSE RdOk(parts[1], parts[2])

\* get_aa_params_from_cmdline: `readable` is whether fs::read_to_string
\* succeeded, `content` what it returned.
get_aa_params_from_cmdline(readable, content) ==
  IF ~readable THEN RdErr("BootReadError") ELSE ParseCmdline(content)

\* ----------------------------------------------------------- the registry
\* Compile-time features of the build (mod.rs lines 8 to 14, 26 to 30).
AllFeatures == {"kbs", "sev"}

\* Outcome of the match in RealClient::new: the constructor to invoke (with
\* its arguments), or the unknown-name failure carrying the token.
RegCtor(kind, args) == [tag |-> "ctor", kind |-> kind, args |-> args, token |-> <<>>]
RegErr(token) == [tag |-> "UnknownBackend", kind |-> "None", args |-> <<>>, token |-> token]

\* A match whose arms are all compiled in, whatever the features.
RegistryUngated(feat, kbc, host) ==
  IF kbc = CC_KBC THEN RegCtor("Cc", <<host>>)
  ELSE IF kbc = ONLINE_SEV_KBC THEN RegCtor("Sev", <<host>>)
  ELSE IF kbc = OFFLINE_FS_KBC THEN RegCtor("OfflineFs", <<>>)
  ELSE RegErr(kbc)

\* A match whose last arm falls back to the offline backend.
RegistryFallback(feat, kbc, host) ==
  IF "kbs" \in feat /\ kbc = CC_KBC THEN RegCtor("Cc", <<host>>)
  ELSE IF "sev" \in feat /\ kbc = ONLINE_SEV_KBC THEN RegCtor("Sev", <<host>>)
  ELSE RegCtor("OfflineFs", <<>>)

\* A match that hands the host argument to the offline backend as well.
RegistryOfflineHost(feat, kbc, host) ==
  IF "kbs" \in feat /\ kbc = CC_KBC THEN RegCtor("Cc", <<host>>)
  ELSE IF "sev" \in feat /\ kbc = ONLINE_SEV_KBC THEN RegCtor("Sev", <<host>>)
  ELSE IF kbc = OFFLINE_FS_KBC THEN RegCtor("OfflineFs", <<host>>)
  ELSE RegErr(kbc)

\* The match arms of RealClient::new, in source order; an arm under
\* #[cfg(feature = ...)] exists only when the feature is enabled.
Registry(feat, kbc, host) ==
  IF "kbs" \in feat /\ kbc = CC_KBC THEN RegCtor("Cc", <<host>>)
  ELSE IF "sev" \in feat /\ kbc = ONLINE_SEV_KBC THEN RegCtor("Sev", <<host>>)
  ELSE IF kbc = OFFLINE_FS_KBC THEN RegCtor("OfflineFs", <<>>)
  ELSE RegErr(kbc)

\* ----------------------------------------------------------- resource URIs
\* Names handed to get_secret.
Names == {"kbs:///default/key/1", "not a uri"}

\* ResourceUri::try_from(name) succeeds.
UriParses(n) == n \in {"kbs:///default/key/1", "kbs:///x"}

\* ------------------------------------------------------------------ values
\* The empty cell (Option::None) and a populated one (Some(RealClient)).
None == [kind |-> "None", inst |-> 0]
Some(kind, inst) == [kind |-> kind, inst |-> inst]

\* A test that always takes the initialization branch.
IsNoneAlways(c) == TRUE

\* A test that never takes the initialization branch.
IsNoneNever(c) == FALSE

\* Option::is_none on the cell (mod.rs lines 75 and 96).
IsNone(c) == c = None

\* What a call returned.
NoResult == [tag |-> "none", val |-> <<>>]
Ret(tag, val) == [tag |-> tag, val |-> val]

\* What the backend's get_resource may return: Ok(bytes) or Err(cause).
BackendReturns ==
  { [ok |-> TRUE, val |-> <<"x01">>],
    [ok |-> TRUE, val |-> <<"x02">>],
    [ok |-> FALSE, val |-> <<"e1">>] }
NoReturn == [ok |-> FALSE, val |-> <<>>]

\* A dispatch that turns a failure of the backend into empty bytes.
FromBackendMasked(r) ==
  IF r.ok THEN Ret("Bytes", r.val) ELSE Ret("Bytes", <<>>)

\* The value get_secret returns for a return of the backend (lines 82 to 88).
FromBackend(r) ==
  IF r.ok THEN Ret("Bytes", r.val) ELSE Ret("BackendOperationError", r.val)

\* Causes a backend constructor may fail with.
CtorErrs == {<<"c1">>}

\* Counters of a call in progress: reader, constructor and get_resource
\* invocations it has made, and whether it has held the cell lock.
NoStats == [reads |-> 0, ctors |-> 0, gets |-> 0, locked |-> FALSE]

\* ------------------------------------------------------- command-line files
Tok(v) == AA_PREFIX \o v
Line3(a, b, c) == a \o <<" ">> \o b \o <<" ">> \o c

CmdOffline == Line3(<<"q">>, Tok(OFFLINE_FS_KBC \o SEP), <<"s">>)
CmdCc == Tok(CC_KBC \o SEP \o <<"h">>)
CmdMystery == Tok(<<"m","y","s","t","e","r","y","_","k","b","c">> \o SEP \o <<"h">>)
CmdMalformed == Tok(CC_KBC \o <<":","h">>)

CmdMissing == Line3(<<"q">>, <<"r">>, <<"s">>)

Cmdlines == {CmdOffline, CmdCc, CmdMystery, CmdMalformed, CmdMissing}

\* ------------------------------------------------------------------- state
VARIABLES
  features,     \* the features the build was compiled with
  cmdline,      \* content of /proc/cmdline
  KBS_CLIENT,   \* content of the shared cell
  lockHolder,   \* task holding the cell's Mutex, 0 when free
  waitq,        \* tasks waiting for the Mutex, in arrival order
  pc,           \* where each task's call is suspended ("idle": no call)
  op,           \* the call each task is making
  name,         \* the name given to get_secret
  target,       \* the backend the call dispatched get_resource to
  stats,        \* counters of the call in progress
  ret,          \* what the call that returned last returned
  backendRet,   \* what get_resource returned to that call, if it made it
  handles,      \* number of live KbcClient values returned by new
  ctorLog,      \* every constructor invocation of the process, in order
  readerCalls,  \* reader invocations of the process
  started,      \* calls started so far
  probe,        \* input of the reader when probed on its own
  probeOut      \* its output

vars ==
  << features, cmdline, KBS_CLIENT, lockHolder, waitq, pc, op, name, target,
     stats, ret, backendRet, handles, ctorLog, readerCalls, started, probe,
     probeOut >>

env == << features, probe, probeOut >>

NoParams == RdErr("none")

\* ------------------------------------------------ inputs probing the reader
\* A command line in pieces: the tokens before and after the parameter token,
\* the value of the parameter token (when the line has one), the whitespace
\* between tokens, and whether the line also starts and ends with whitespace.
Chars == {"a", ":"}

RECURSIVE StringsUpTo(_)
StringsUpTo(n) ==
  IF n = 0 THEN {<<>>}
  ELSE LET shorter == StringsUpTo(n - 1)
       IN shorter \cup {Append(v, c) : v \in shorter, c \in Chars}

Vals == StringsUpTo(MaxVal)

\* Tokens that do not start with the prefix: a plain word, the prefix without
\* its `=`, the prefix in the middle of a token.
PlainToks ==
  { <<"q">>,
    SubSeq(AA_PREFIX, 1, Len(AA_PREFIX) - 1),
    <<"x">> \o Tok(<<"a",":",":","a">>) }

\* Further tokens that start with the prefix, one well-formed, one not.
PrefixedToks == { Tok(<<"b",":",":","b">>), Tok(<<"b">>) }

Surround == {<<>>} \cup {<<o>> : o \in PlainToks \cup PrefixedToks}

WsRuns == { <<" ">>, <<"\t", "\n">> }

NoProbe == [pre |-> <<>>, has |-> FALSE, val |-> <<>>, post |-> <<>>,
            ws |-> <<" ">>, pad |-> FALSE]

ProbeInputs ==
  { p \in [pre : Surround, has : BOOLEAN, val : Vals, post : Surround,
           ws : WsRuns, pad : BOOLEAN] : p.has \/ p.val = <<>> }

RECURSIVE JoinWs(_, _)
JoinWs(toks, ws) ==
  IF toks = <<>> THEN <<>>
  ELSE IF Len(toks) = 1 THEN toks[1]
  ELSE toks[1] \o ws \o JoinWs(Tail(toks), ws)

\* The text of the command line made of the pieces of p.
Render(p) ==
  LET toks == p.pre \o (IF p.has THEN <<Tok(p.val)>> ELSE <<>>) \o p.post
      edge == IF p.pad THEN p.ws ELSE <<>>
  IN edge \o JoinWs(toks, p.ws) \o edge

\* Kind tokens and host arguments probing the registry.
KindTokens ==
  { CC_KBC, ONLINE_SEV_KBC, OFFLINE_FS_KBC,
    <<"m","y","s","t","e","r","y","_","k","b","c">>,
    <<"C","C","_","K","B","C">>,
    <<"O">> \o Tail(OFFLINE_FS_KBC),
    SubSeq(OFFLINE_FS_KBC, 1, Len(OFFLINE_FS_KBC) - 1),
    ONLINE_SEV_KBC \o <<"2">>,
    <<>> }

BootHosts == { <<>>, <<"h">>, <<"/","p">> }

BootLine(k, h) == Line3(<<"q">>, Tok(k \o SEP \o h), <<"s">>)

BootCmdlines == { BootLine(k, h) : k \in KindTokens, h \in BootHosts }

InitCore ==
  /\ KBS_CLIENT = None
  /\ lockHolder = 0
  /\ waitq = <<>>
  /\ pc = [t \in Tasks |-> "idle"]
  /\ op = [t \in Tasks |-> "none"]
  /\ name = [t \in Tasks |-> ""]
  /\ target = [t \in Tasks |-> None]
  /\ stats = [t \in Tasks |-> NoStats]
  /\ ret = NoResult
  /\ backendRet = NoReturn
  /\ handles = 0
  /\ ctorLog = <<>>
  /\ readerCalls = 0
  /\ started = 0

\* A build with every feature enabled (SpecBoot below covers the others).
Init ==
  /\ InitCore
  /\ features = AllFeatures
  /\ cmdline \in Cmdlines
  /\ probe = NoProbe
  /\ probeOut = NoParams

\* ------------------------------------------------------------ the cell lock
\* A lock that is granted in arrival order but also while it is held.
CanAcquireHeld(t) == waitq # <<>> /\ Head(waitq) = t

\* tokio::sync::Mutex::lock: granted when the mutex is free, to the waiter
\* that asked first.
CanAcquire(t) == lockHolder = 0 /\ waitq # <<>> /\ Head(waitq) = t

\* A guard that outlives the call: the mutex stays with its last holder.
HolderKept(t) == lockHolder

\* The MutexGuard is a local of new/get_secret: it is dropped, and the mutex
\* released, when the call returns or its future is dropped.
HolderAfterReturn(t) == IF lockHolder = t THEN 0 ELSE lockHolder

\* A parse failure that does not end the call.
NeverReturnsOnBadUri(parsed) == FALSE

\* The `?` of line 71: a name that does not parse ends the call at once.
ReturnsOnBadUri(parsed) == ~parsed

\* A dispatch that always takes the arm of the offline backend.
DispatchOffline(c) == Some("OfflineFs", c.inst)

\* `client.as_mut().expect("must be initialized")`: get_resource is called on
\* the backend stored in the cell.
DispatchTarget(c) == c

\* A construction whose result is not stored.
StoreNothing(kind, inst) == None

\* `*client = Some(c)`: the value stored after a successful construction.
StoreBackend(kind, inst) == Some(kind, inst)

\* A failed construction that leaves a partial backend in the cell.
CellPartialOnErr(c) == Some("Partial", 0)

\* The cell after RealClient::new failed: `?` returns before the assignment.
CellAfterCtorErr(c) == c

\* A cell that is emptied when get_resource fails.
CellResetOnError(c, r) == IF r.ok THEN c ELSE None

\* The cell after get_resource returned: the match of lines 82 to 88 does not
\* assign it.
CellAfterGetResource(c, r) == c

\* ------------------------------------------------------------- bookkeeping
Bump(t, f) == [stats EXCEPT ![t][f] = @ + 1]

Remove(q, t) == SelectSeq(q, LAMBDA x : x # t)

\* The call of task t ends with r, after get_resource returned b to it (or
\* NoReturn): its future, and with it its guard, is dropped.
Return(t, r, b) ==
  /\ backendRet' = b
  /\ pc' = [pc EXCEPT ![t] = "idle"]
  /\ op' = [op EXCEPT ![t] = "none"]
  /\ name' = [name EXCEPT ![t] = ""]
  /\ target' = [target EXCEPT ![t] = None]
  /\ stats' = [stats EXCEPT ![t] = NoStats]
  /\ ret' = r
  /\ lockHolder' = HolderAfterReturn(t)

\* The constructor invocation task t awaits ends with status st.
EndCtor(t, st) ==
  [i \in 1..Len(ctorLog) |->
     IF ctorLog[i].task = t
       THEN [ctorLog[i] EXCEPT !.status = st, !.task = 0]
       ELSE ctorLog[i]]

\* A task starts a call.
Begin(t, o, n) ==
  /\ pc[t] = "idle"
  /\ started < MaxCalls
  /\ started' = started + 1
  /\ op' = [op EXCEPT ![t] = o]
  /\ name' = [name EXCEPT ![t] = n]
  /\ pc' = [pc EXCEPT ![t] = "lock"]
  /\ waitq' = Append(waitq, t)

\* ----------------------------------------------------------------- actions
\* KbcClient::new is called: it asks for the lock (line 95).
NewCall(t) ==
  /\ Begin(t, "new", "")
  /\ UNCHANGED << env, cmdline, KBS_CLIENT, lockHolder, target, stats, ret,
                  backendRet, handles, ctorLog, readerCalls >>

\* get_secret is called: the name is parsed (lines 70, 71), then the lock is
\* asked for (line 73).
GetSecretCall(t, n) ==
  /\ IF ReturnsOnBadUri(UriParses(n))
       THEN /\ pc[t] = "idle"
            /\ started < MaxCalls
            /\ started' = started + 1
            /\ Return(t, Ret("InvalidResourceURI", <<>>), NoReturn)
            /\ UNCHANGED waitq
       ELSE /\ Begin(t, "get_secret", n)
            /\ UNCHANGED << lockHolder, target, stats, ret, backendRet >>
  /\ UNCHANGED << env, cmdline, KBS_CLIENT, handles, ctorLog, readerCalls >>

\* The lock is granted (lines 73, 95) and the cell is tested (lines 75, 96):
\* empty, RealClient::new starts reading the command line; populated, new
\* returns and get_secret dispatches.
Acquire(t) ==
  /\ pc[t] = "lock"
  /\ CanAcquire(t)
  /\ waitq' = Remove(waitq, t)
  /\ IF IsNone(KBS_CLIENT)
       THEN /\ pc' = [pc EXCEPT ![t] = "read"]
            /\ lockHolder' = t
            /\ readerCalls' = readerCalls + 1
            /\ stats' = [stats EXCEPT ![t].reads = @ + 1, ![t].locked = TRUE]
            /\ UNCHANGED << op, name, target, ret, backendRet, handles >>
       ELSE IF op[t] = "new"
         THEN /\ Return(t, Ret("Handle", <<>>), NoReturn)
              /\ handles' = handles + 1
              /\ UNCHANGED readerCalls
         ELSE /\ pc' = [pc EXCEPT ![t] = "get_resource"]
              /\ lockHolder' = t
              /\ target' = [target EXCEPT ![t] = DispatchTarget(KBS_CLIENT)]
              /\ stats' = [stats EXCEPT ![t].gets = @ + 1, ![t].locked = TRUE]
              /\ UNCHANGED << op, name, ret, backendRet, readerCalls, handles >>
  /\ UNCHANGED << env, cmdline, KBS_CLIENT, ctorLog, started >>

\* fs::read_to_string completes (line 107); the text is parsed (lines 110 to
\* 127) and the backend selected (line 36); a selected constructor starts.
ReadDone(t, readable) ==
  /\ pc[t] = "read"
  /\ LET r == get_aa_params_from_cmdline(readable, cmdline)
         g == Registry(features, r.kbc, r.host)
     IN IF r.tag # "ok"
          THEN /\ Return(t, Ret(r.tag, <<>>), NoReturn)
               /\ UNCHANGED ctorLog
          ELSE IF g.tag # "ctor"
            THEN /\ Return(t, Ret(g.tag, g.token), NoReturn)
                 /\ UNCHANGED ctorLog
            ELSE /\ pc' = [pc EXCEPT ![t] = "ctor"]
                 /\ ctorLog' = Append(ctorLog,
                      [task |-> t, kind |-> g.kind, args |-> g.args,
                       status |-> "running"])
                 /\ stats' = Bump(t, "ctors")
                 /\ UNCHANGED << op, name, target, ret, backendRet, lockHolder >>
  /\ UNCHANGED << env, cmdline, KBS_CLIENT, waitq, handles, readerCalls,
                  started >>

\* The backend constructor returns Ok: the backend is stored (lines 77, 98);
\* new returns the handle, get_secret dispatches.
CtorOk(t) ==
  /\ pc[t] = "ctor"
  /\ LET i == CHOOSE j \in 1..Len(ctorLog) : ctorLog[j].task = t
         b == StoreBackend(ctorLog[i].kind, i)
     IN /\ KBS_CLIENT' = b
        /\ ctorLog' = EndCtor(t, "ok")
        /\ IF op[t] = "new"
             THEN /\ Return(t, Ret("Handle", <<>>), NoReturn)
                  /\ handles' = handles + 1
             ELSE /\ pc' = [pc EXCEPT ![t] = "get_resource"]
                  /\ target' = [target EXCEPT ![t] = DispatchTarget(b)]
                  /\ stats' = Bump(t, "gets")
                  /\ UNCHANGED << op, name, ret, backendRet, lockHolder,
                                  handles >>
  /\ UNCHANGED << env, cmdline, waitq, readerCalls, started >>

\* The backend constructor returns Err: `?` propagates it (lines 76, 97).
CtorErr(t, e) ==
  /\ pc[t] = "ctor"
  /\ KBS_CLIENT' = CellAfterCtorErr(KBS_CLIENT)
  /\ ctorLog' = EndCtor(t, "err")
  /\ Return(t, Ret("BackendConstructionError", e), NoReturn)
  /\ UNCHANGED << env, cmdline, waitq, handles, readerCalls, started >>

\* get_resource returns r: get_secret returns it (lines 82 to 88).
GetResourceDone(t, r) ==
  /\ pc[t] = "get_resource"
  /\ KBS_CLIENT' = CellAfterGetResource(KBS_CLIENT, r)
  /\ Return(t, FromBackend(r), r)
  /\ UNCHANGED << env, cmdline, waitq, handles, ctorLog, readerCalls, started >>

\* The future of a suspended call is dropped: it leaves the wait queue, its
\* guard is dropped, a constructor it was awaiting is abandoned.
Cancel(t) ==
  /\ pc[t] \in {"lock", "read", "ctor", "get_resource"}
  /\ waitq' = Remove(waitq, t)
  /\ ctorLog' = EndCtor(t, "dropped")
  /\ Return(t, Ret("Cancelled", <<>>), NoReturn)
  /\ UNCHANGED << env, cmdline, KBS_CLIENT, handles, readerCalls, started >>

\* A KbcClient is dropped: the unit struct owns nothing.
DropHandle ==
  /\ handles > 0
  /\ handles' = handles - 1
  /\ UNCHANGED << env, cmdline, KBS_CLIENT, lockHolder, waitq, pc, op, name,
                  target, stats, ret, backendRet, ctorLog, readerCalls, started >>

\* The environment rewrites the command-line file.
SetCmdline(c) ==
  /\ c # cmdline
  /\ cmdline' = c
  /\ UNCHANGED << env, KBS_CLIENT, lockHolder, waitq, pc, op, name, target,
                  stats, ret, backendRet, handles, ctorLog, readerCalls, started >>

Next ==
  \/ \E t \in Tasks : NewCall(t)
  \/ \E t \in Tasks, n \in Names : GetSecretCall(t, n)
  \/ \E t \in Tasks : Acquire(t)
  \/ \E t \in Tasks, readable \in BOOLEAN : ReadDone(t, readable)
  \/ \E t \in Tasks : CtorOk(t)
  \/ \E t \in Tasks, e \in CtorErrs : CtorErr(t, e)
  \/ \E t \in Tasks, r \in BackendReturns : GetResourceDone(t, r)
  \/ \E t \in Tasks : Cancel(t)
  \/ DropHandle
  \/ \E c \in Cmdlines : SetCmdline(c)

Spec == Init /\ [][Next]_vars

\* ------------------------------------------------- the reader on its own
\* get_aa_params_from_cmdline applied to the probed command line.
ProbeReader(readable) ==
  /\ probeOut = NoParams
  /\ probeOut' = get_aa_params_from_cmdline(readable, Render(probe))
  /\ UNCHANGED << features, probe, cmdline, KBS_CLIENT, lockHolder, waitq, pc,
                  op, name, target, stats, ret, backendRet, handles, ctorLog,
                  readerCalls, started >>

InitReader ==
  /\ InitCore
  /\ features = AllFeatures
  /\ probe \in ProbeInputs
  /\ cmdline = Render(probe)
  /\ probeOut = NoParams

NextReader == \E readable \in BOOLEAN : ProbeReader(readable)

SpecReader == InitReader /\ [][NextReader]_vars

\* ----------------------------------------------- one caller, every build
\* A single task calling new and get_secret in turn, for every set of
\* features and every probed kind token and host argument.
InitBoot ==
  /\ InitCore
  /\ features \in SUBSET AllFeatures
  /\ cmdline \in BootCmdlines
  /\ probe = NoProbe
  /\ probeOut = NoParams

NextBoot ==
  \/ NewCall(1)
  \/ \E n \in Names : GetSecretCall(1, n)
  \/ Acquire(1)
  \/ \E readable \in BOOLEAN : ReadDone(1, readable)
  \/ CtorOk(1)
  \/ \E e \in CtorErrs : CtorErr(1, e)
  \/ \E r \in BackendReturns : GetResourceDone(1, r)

SpecBoot == InitBoot /\ [][NextBoot]_vars

\* ------------------------------------------------- concurrent first use
\* Callers of get_secret with well-formed names that all start on the empty
\* cell before any call has returned, with a valid command line, a backend
\* that constructs and a get_resource that returns Ok.
ValidCmdlines ==
  { CmdOffline, CmdCc, BootLine(ONLINE_SEV_KBC, <<"h">>),
    BootLine(OFFLINE_FS_KBC, <<"/", "p">>) }
GoodNames == {n \in Names : UriParses(n)}
OkReturns == {r \in BackendReturns : r.ok}

InitFirstUse ==
  /\ InitCore
  /\ features = AllFeatures
  /\ cmdline \in ValidCmdlines
  /\ probe = NoProbe
  /\ probeOut = NoParams

NextFirstUse ==
  \/ \E t \in Tasks, n \in GoodNames : ret = NoResult /\ GetSecretCall(t, n)
  \/ \E t \in Tasks : Acquire(t)
  \/ \E t \in Tasks : ReadDone(t, TRUE)
  \/ \E t \in Tasks : CtorOk(t)
  \/ \E t \in Tasks, r \in OkReturns : GetResourceDone(t, r)

SpecFirstUse == InitFirstUse /\ [][NextFirstUse]_vars

\* --------------------------------------------------------- fair scheduling
\* The runtime polls every ready future, the mutex grants the lock in arrival
\* order, and the read of the command line, the constructors and get_resource
\* terminate: a step of a call that stays possible is eventually taken.
Fairness ==
  \A t \in Tasks :
    /\ WF_vars(Acquire(t))
    /\ WF_vars(\E readable \in BOOLEAN : ReadDone(t, readable))
    /\ WF_vars(CtorOk(t) \/ \E e \in CtorErrs : CtorErr(t, e))
    /\ WF_vars(\E r \in BackendReturns : GetResourceDone(t, r))

SpecLive == Init /\ [][Next]_vars /\ Fairness

\* ================================================================== claims
CtorIdx == 1..Len(ctorLog)

\* C1: at most one constructor invocation ever succeeds, and whenever the log
\* holds a later invocation, every earlier one had ended without success when
\* it started: none is still in progress and none succeeded (an invocation
\* ends without success by returning an error, or by being abandoned when its
\* caller is cancelled).
C1_AtMostOnceConstruction ==
  /\ Cardinality({i \in CtorIdx : ctorLog[i].status = "ok"}) <= 1
  /\ \A i, j \in CtorIdx :
       i < j => ctorLog[i].status \notin {"running", "ok"}

\* A failed construction was retried with success while another caller was
\* waiting for the lock.
C1_Witness ==
  /\ \E i, j \in CtorIdx :
       i < j /\ ctorLog[i].status = "err" /\ ctorLog[j].status = "ok"
  /\ waitq # <<>>

\* C2: the cell starts empty, and a populated cell keeps its backend in every
\* step.
C2_CellNeverClearedOrReplaced ==
  /\ KBS_CLIENT = None
  /\ [][KBS_CLIENT # None => KBS_CLIENT' = KBS_CLIENT]_vars

\* The cell is populated and a later get_secret has failed in the backend.
C2_Witness ==
  /\ KBS_CLIENT # None
  /\ ret.tag = "BackendOperationError"
  /\ started >= 2

\* C3: a call that has dispatched get_resource dispatched it to the backend
\* in the cell, which is the one constructor invocation that succeeded (its
\* kind and its instance), whoever made that invocation and whatever the
\* command line now says.
C3_FixedKindAndInstance ==
  \A t \in Tasks :
    pc[t] = "get_resource" =>
      /\ target[t] = KBS_CLIENT
      /\ target[t] # None
      /\ target[t].inst \in CtorIdx
      /\ \A i \in CtorIdx :
           ctorLog[i].status = "ok" <=> target[t] = Some(ctorLog[i].kind, i)

\* The kind the command line selects now, "None" when it selects none.
KindNow ==
  LET r == ParseCmdline(cmdline)
  IN IF r.tag = "ok" THEN Registry(features, r.kbc, r.host).kind ELSE "None"

\* A call dispatches to a backend that it did not construct, while the
\* command line now selects another kind.
C3_Witness ==
  \E t \in Tasks :
    /\ pc[t] = "get_resource"
    /\ stats[t].ctors = 0
    /\ KindNow \notin {"None", target[t].kind}

\* C4: at most one backend operation (constructor or get_resource) is in
\* progress in any state.
C4_BackendCallsSerialized ==
  Cardinality({t \in Tasks : pc[t] \in {"ctor", "get_resource"}}) <= 1

\* A backend operation is in progress while another call waits for the lock.
C4_Witness ==
  \E t, u \in Tasks :
    /\ pc[t] \in {"ctor", "get_resource"}
    /\ pc[u] = "lock"

\* C5: when a constructor invocation fails, its call returns that error with
\* the cell empty and the lock free; after a failure, a call that is granted
\* the lock on the empty cell invokes the reader again, and when the command
\* line selects a compiled-in backend the constructor is invoked again.
C5_FailedConstructionIsRetried ==
  [][\A t \in Tasks :
       /\ (\E i \in CtorIdx : ctorLog[i].task = t /\ ctorLog'[i].status = "err")
            => /\ pc'[t] = "idle"
               /\ ret'.tag = "BackendConstructionError"
               /\ ret'.val \in CtorErrs
               /\ KBS_CLIENT' = None
               /\ lockHolder' = 0
       /\ (\E i \in CtorIdx : ctorLog[i].status = "err")
            => /\ (pc[t] = "lock" /\ lockHolder' = t /\ KBS_CLIENT = None)
                    => /\ pc'[t] = "read"
                       /\ readerCalls' = readerCalls + 1
               /\ ( /\ pc[t] = "read"
                    /\ pc'[t] # "read"
                    /\ ~(pc'[t] = "idle" /\ ret'.tag \in {"Cancelled", "BootReadError"})
                    /\ KindNow # "None" )
                    => /\ pc'[t] = "ctor"
                       /\ Len(ctorLog') = Len(ctorLog) + 1
                       /\ ctorLog'[Len(ctorLog')].kind = KindNow
                       /\ ctorLog'[Len(ctorLog')].status = "running"
    ]_vars

\* After a failed construction the command line was read again and a
\* constructor is running again.
C5_Witness ==
  /\ \E i, j \in CtorIdx :
       i < j /\ ctorLog[i].status = "err" /\ ctorLog[j].status = "running"
  /\ readerCalls >= 2
  /\ KBS_CLIENT = None

\* C6: no get_secret call whose name does not parse ever waits for the lock,
\* holds it, reads the command line, constructs or dispatches; the call
\* returns the invalid-resource-URI error in the step that starts it, and that
\* step changes neither the lock, nor its queue, nor the cell, nor the
\* reader's and the constructors' invocation records.
C6_BadUriTouchesNothing ==
  [][/\ \A t \in Tasks :
          (pc'[t] # "idle" /\ op'[t] = "get_secret") => UriParses(name'[t])
     /\ (started' = started + 1 /\ pc' = pc)
          => /\ ret' = Ret("InvalidResourceURI", <<>>)
             /\ backendRet' = NoReturn
             /\ KBS_CLIENT' = KBS_CLIENT
             /\ lockHolder' = lockHolder
             /\ waitq' = waitq
             /\ ctorLog' = ctorLog
             /\ readerCalls' = readerCalls
             /\ target' = target
             /\ stats' = stats
    ]_vars

\* A call with a malformed name has returned its error while another call
\* holds the lock and is constructing the backend.
C6_Witness ==
  /\ ret.tag = "InvalidResourceURI"
  /\ KBS_CLIENT = None
  /\ \E t \in Tasks : pc[t] = "ctor" /\ lockHolder = t

\* C8: when the call that returned last had get_resource return to it, it
\* returned exactly the backend's bytes, or the backend-operation error
\* carrying exactly the backend's error.
C8_PassThrough ==
  backendRet # NoReturn =>
    /\ backendRet \in BackendReturns
    /\ backendRet.ok => ret = Ret("Bytes", backendRet.val)
    /\ ~backendRet.ok => ret = Ret("BackendOperationError", backendRet.val)

\* The backend failed and get_secret returned that failure.
C8_Witness ==
  /\ backendRet = [ok |-> FALSE, val |-> <<"e1">>]
  /\ ret.tag = "BackendOperationError"

\* C9 as stated: the reader is invoked at most once in the process.
C9_ReaderAtMostOncePerProcess == readerCalls <= 1

\* C9 amended: the reader is invoked only by a call that has just been
\* granted the lock and found the cell empty, once per such call, and by
\* every such call; it is never invoked once the cell is populated.
C9_ReaderOnlyOnEmptyCell ==
  [][/\ readerCalls' # readerCalls
          => /\ readerCalls' = readerCalls + 1
             /\ KBS_CLIENT = None
             /\ KBS_CLIENT' = None
             /\ \E t \in Tasks :
                  /\ pc[t] = "lock"
                  /\ pc'[t] = "read"
                  /\ lockHolder' = t
                  /\ stats[t].reads = 0
                  /\ stats'[t].reads = 1
     /\ \A t \in Tasks :
          /\ stats'[t].reads <= 1
          /\ pc'[t] = "read" => (KBS_CLIENT' = None /\ lockHolder' = t)
          /\ (pc[t] = "lock" /\ lockHolder' = t /\ KBS_CLIENT = None)
               => readerCalls' = readerCalls + 1
    ]_vars

\* The command line was read twice and the second initialization succeeded.
C9_Witness ==
  /\ readerCalls >= 2
  /\ KBS_CLIENT # None

\* The text s contains `::`.
HasSep(s) == \E i \in 1..(Len(s) - 1) : s[i] = ":" /\ s[i + 1] = ":"

\* The text s ends with `:`.
EndsWithColon(s) == s # <<>> /\ s[Len(s)] = ":"

\* Number of `::` separators of s, scanning left to right without overlap.
RECURSIVE CountSepFrom(_, _)
CountSepFrom(s, i) ==
  IF i + 1 > Len(s) THEN 0
  ELSE IF s[i] = ":" /\ s[i + 1] = ":" THEN 1 + CountSepFrom(s, i + 2)
  ELSE CountSepFrom(s, i + 1)

CountSep(s) == CountSepFrom(s, 1)

\* No token of the sequence starts with the prefix.
AllPlain(toks) == \A i \in 1..Len(toks) : toks[i] \in PlainToks

\* The reader has returned from parsing the probed line.
Probed == probeOut # NoParams /\ probeOut.tag # "BootReadError"

\* C7 as stated: for the token agent.aa_kbc_params=<k>::<h> (k and h without
\* `::`) among other tokens the reader returns (k, h); with zero or more than
\* one separator in the value it fails as malformed; without any prefixed
\* token it fails as missing.
C7_GrammarAsStated ==
  Probed =>
    /\ \A k, h \in Vals :
         ( /\ probe.has
           /\ probe.val = k \o SEP \o h
           /\ ~HasSep(k) /\ ~HasSep(h)
           /\ AllPlain(probe.pre) /\ AllPlain(probe.post) )
         => probeOut = RdOk(k, h)
    /\ ( /\ probe.has
         /\ CountSep(probe.val) # 1
         /\ AllPlain(probe.pre) /\ AllPlain(probe.post) )
         => probeOut = RdErr("MalformedParameter")
    /\ (~probe.has /\ AllPlain(probe.pre) /\ AllPlain(probe.post))
         => probeOut = RdErr("MissingParameter")

\* C7 amended: when the first token with the prefix is
\* agent.aa_kbc_params=<k>::<h>, with k and h without `::` and k not ending
\* with `:`, whatever the other tokens and the whitespace, the reader returns
\* (k, h); when the value of that token has zero or more than one separator
\* (scanned left to right without overlap) it fails as malformed; when no
\* token has the prefix it fails as missing.
C7_Grammar ==
  Probed =>
    /\ \A k, h \in Vals :
         ( /\ probe.has
           /\ probe.val = k \o SEP \o h
           /\ ~HasSep(k) /\ ~HasSep(h) /\ ~EndsWithColon(k)
           /\ AllPlain(probe.pre) )
         => probeOut = RdOk(k, h)
    /\ (probe.has /\ CountSep(probe.val) # 1 /\ AllPlain(probe.pre))
         => probeOut = RdErr("MalformedParameter")
    /\ (~probe.has /\ AllPlain(probe.pre) /\ AllPlain(probe.post))
         => probeOut = RdErr("MissingParameter")

\* The pair was read from a line padded with whitespace, with a plain token
\* before the parameter and a second prefixed token after it.
C7_Witness ==
  /\ probeOut = RdOk(<<"a">>, <<":">>)
  /\ probe.pre # <<>>
  /\ probe.post = <<Tok(<<"b">>)>>
  /\ probe.pad

\* The tokens of the backends compiled in with features f.
CompiledTokens(f) ==
  {OFFLINE_FS_KBC}
    \cup (IF "kbs" \in f THEN {CC_KBC} ELSE {})
    \cup (IF "sev" \in f THEN {ONLINE_SEV_KBC} ELSE {})

\* The backend a compiled-in token names.
BackendOf(k) ==
  IF k = CC_KBC THEN "Cc" ELSE IF k = ONLINE_SEV_KBC THEN "Sev" ELSE "OfflineFs"

\* C10: when a call leaves the reader with kind token k, a constructor is
\* invoked exactly when k is the token of a compiled-in backend, and it is
\* that backend's; for any other token the call fails with the
\* unknown-backend error naming k and no constructor is invoked. No
\* constructor is invoked in any other step.
C10_RegistryExact ==
  [][/\ \A t \in Tasks, k \in KindTokens, h \in BootHosts :
          ( /\ cmdline = BootLine(k, h)
            /\ pc[t] = "read"
            /\ pc'[t] # "read"
            /\ ~(pc'[t] = "idle" /\ ret'.tag \in {"Cancelled", "BootReadError"}) )
          => IF k \in CompiledTokens(features)
               THEN /\ pc'[t] = "ctor"
                    /\ Len(ctorLog') = Len(ctorLog) + 1
                    /\ ctorLog'[Len(ctorLog')].kind = BackendOf(k)
                    /\ ctorLog'[Len(ctorLog')].status = "running"
                    /\ stats'[t].ctors = 1
               ELSE /\ pc'[t] = "idle"
                    /\ ret' = Ret("UnknownBackend", k)
                    /\ ctorLog' = ctorLog
                    /\ KBS_CLIENT' = None
     /\ Len(ctorLog') # Len(ctorLog)
          => \E t \in Tasks : pc[t] = "read" /\ pc'[t] = "ctor"
    ]_vars

\* The token cc_kbc was refused by a build with feature sev but without
\* feature kbs, and no constructor was invoked.
C10_Witness ==
  /\ ret = Ret("UnknownBackend", CC_KBC)
  /\ features = {"sev"}
  /\ ctorLog = <<>>

\* Some call is in progress, and none is.
InProgress(t) == pc[t] # "idle"
AllReturned == \A t \in Tasks : ~InProgress(t)

\* The step is the return of task t's call.
Returns(t) == InProgress(t) /\ pc'[t] = "idle"

\* C11: when N get_secret calls with well-formed names start on the empty
\* cell before any of them returns, with a valid command line and a backend
\* whose constructor and get_resource succeed, every call returns from its own
\* single get_resource invocation with the bytes it produced, and once all
\* have returned exactly one constructor invocation has been made, which
\* succeeded.
C11_ConcurrentFirstUse ==
  [][ /\ \A t \in Tasks :
           Returns(t) => /\ pc[t] = "get_resource"
                         /\ stats[t].gets = 1
                         /\ backendRet' \in OkReturns
                         /\ ret' = Ret("Bytes", backendRet'.val)
      /\ (AllReturned' /\ started' > 0) =>
           /\ Len(ctorLog') = 1
           /\ ctorLog'[1].status = "ok"
           /\ KBS_CLIENT' = Some(ctorLog'[1].kind, 1) ]_vars

\* Every task made a call, all calls were started before any returned, and
\* all have returned.
C11_Witness ==
  /\ started = NumTasks
  /\ NumTasks >= 2
  /\ AllReturned
  /\ ret.tag = "Bytes"
  /\ Len(ctorLog) = 1

\* The step drops the future of task t's suspended call.
Cancelled(t) == Returns(t) /\ ret'.tag = "Cancelled"

\* C12 as stated: the only call made so far was cancelled, so the cell holds
\* the value it held before that call started, which is the empty one.
C12_CellAsBeforeCall ==
  (started = 1 /\ ret.tag = "Cancelled") => KBS_CLIENT = None

\* C12: dropping a call at a suspension point (awaiting the lock, the read of
\* the command line, the constructor or get_resource) does not change the
\* cell; a call dropped before its constructor returned leaves the cell
\* empty; the dropped call neither holds the lock nor waits for it afterwards,
\* the lock is free if it held it, and the constructor it awaited is ended.
C12_CancelLeavesCell ==
  [][ \A t \in Tasks :
        Cancelled(t) =>
          /\ KBS_CLIENT' = KBS_CLIENT
          /\ pc[t] \in {"read", "ctor"} => KBS_CLIENT' = None
          /\ lockHolder' # t
          /\ lockHolder = t => lockHolder' = 0
          /\ \A i \in 1..Len(waitq') : waitq'[i] # t
          /\ Len(ctorLog') = Len(ctorLog)
          /\ \A i \in CtorIdx :
               ctorLog'[i].status =
                 IF ctorLog[i].task = t THEN "dropped" ELSE ctorLog[i].status
          /\ readerCalls' = readerCalls /\ handles' = handles ]_vars

\* A call was dropped while it awaited its constructor, and a later call
\* took the lock and constructed the backend.
C12_Witness ==
  /\ \E i, j \in CtorIdx :
       i < j /\ ctorLog[i].status = "dropped" /\ ctorLog[j].status = "ok"
  /\ KBS_CLIENT # None
  /\ lockHolder = 0

\* C13 as stated: whenever a KbcClient exists, be it a handle returned by new
\* and not yet dropped or the receiver of a get_secret call in progress, the
\* cell is populated.
C13_AnyHandleImpliesPopulated ==
  (handles > 0 \/ \E t \in Tasks : InProgress(t) /\ op[t] = "get_secret")
    => KBS_CLIENT # None

\* C13: whenever a handle returned by KbcClient::new exists the cell is
\* populated: a handle is only returned by a call of new, in a state where the
\* cell holds a backend; the cell does not change while a handle exists; and
\* dropping a handle leaves the cell unchanged.
C13_NewHandleImpliesPopulated ==
  [][ /\ handles' > 0 => KBS_CLIENT' # None
      /\ handles' > handles =>
           /\ KBS_CLIENT' # None
           /\ \E t \in Tasks :
                Returns(t) /\ op[t] = "new" /\ ret' = Ret("Handle", <<>>)
      /\ handles > 0 => KBS_CLIENT' = KBS_CLIENT
      /\ handles' < handles => KBS_CLIENT' = KBS_CLIENT
      /\ \A t \in Tasks :
           (Returns(t) /\ ret'.tag = "Handle") => handles' = handles + 1 ]_vars

\* new returned a handle, the handle was dropped, and the cell is still
\* populated.
C13_Witness ==
  /\ ret.tag = "Handle"
  /\ handles = 0
  /\ KBS_CLIENT # None

\* The failures of RealClient::new that precede any constructor.
ReaderFailures == {"BootReadError", "MissingParameter", "MalformedParameter"}
RegistryFailures == {"UnknownBackend"}
MysteryToken == <<"m","y","s","t","e","r","y","_","k","b","c">>

\* C14: when the command-line read ends (not by cancellation) on a command
\* line without the parameter, with a malformed parameter or naming an unknown
\* backend, or the file cannot be read, the call returns the corresponding
\* failure; a call that returns at that point returns a reader or registry
\* failure, held the lock and releases it, leaves the cell empty, and has
\* invoked no constructor and no get_resource.
C14_ReaderFailureFrame ==
  [][ \A t \in Tasks :
        (pc[t] = "read" /\ pc'[t] # "read" /\ ~Cancelled(t)) =>
          /\ cmdline \in {CmdMissing, CmdMalformed, CmdMystery} => Returns(t)
          /\ cmdline = CmdMissing =>
               ret' \in {Ret("MissingParameter", <<>>), Ret("BootReadError", <<>>)}
          /\ cmdline = CmdMalformed =>
               ret' \in {Ret("MalformedParameter", <<>>), Ret("BootReadError", <<>>)}
          /\ cmdline = CmdMystery =>
               ret' \in {Ret("UnknownBackend", MysteryToken), Ret("BootReadError", <<>>)}
          /\ Returns(t) =>
               /\ ret'.tag \in ReaderFailures \cup RegistryFailures
               /\ KBS_CLIENT = None /\ KBS_CLIENT' = None
               /\ lockHolder = t /\ lockHolder' = 0
               /\ ctorLog' = ctorLog
               /\ stats[t].ctors = 0 /\ stats[t].gets = 0
               /\ handles' = handles ]_vars

\* The first call failed in the reader or the registry; the command line was
\* then made valid, and the second call read it, constructed the backend and
\* dispatched.
C14_Witness ==
  /\ started = 2
  /\ readerCalls = 2
  /\ ret.tag \in {"MissingParameter", "MalformedParameter", "UnknownBackend"}
  /\ Len(ctorLog) = 1
  /\ KBS_CLIENT = Some(ctorLog[1].kind, 1)
  /\ \E t \in Tasks : pc[t] = "get_resource" /\ stats[t].ctors = 1

\* C15: a call in progress has invoked the reader, a constructor and
\* get_resource at most once each, and the step on which a call returns
\* invokes nothing; a call whose constructor fails returns that failure
\* without having called get_resource, and a call whose get_resource fails
\* returns that failure without any further constructor invocation.
C15_NoRetryNoFallback ==
  [][ \A t \in Tasks :
        /\ stats'[t].reads <= 1 /\ stats'[t].ctors <= 1 /\ stats'[t].gets <= 1
        /\ Returns(t) =>
             /\ readerCalls' = readerCalls
             /\ Len(ctorLog') = Len(ctorLog)
             /\ \A i \in CtorIdx : ctorLog'[i].kind = ctorLog[i].kind
        /\ (\E i \in CtorIdx :
              ctorLog[i].task = t /\ ctorLog'[i].status = "err") =>
             /\ Returns(t)
             /\ ret'.tag = "BackendConstructionError"
             /\ ret'.val \in CtorErrs
             /\ stats[t].gets = 0
        /\ (pc[t] = "get_resource" /\ Returns(t)
              /\ backendRet' \in BackendReturns /\ ~backendRet'.ok) =>
             /\ ret' = Ret("BackendOperationError", backendRet'.val)
             /\ ctorLog' = ctorLog ]_vars

\* A get_secret call constructed the backend, its get_resource failed, and
\* it returned that failure: one constructor invocation in all.
C15_Witness ==
  /\ started = 1
  /\ AllReturned
  /\ ret.tag = "BackendOperationError"
  /\ Len(ctorLog) = 1
  /\ readerCalls = 1

\* C16: a call that is reading the command line, constructing, or in
\* get_resource holds the lock; the cell is tested only by the call the free
\* lock is granted to, and written only by the lock holder when its
\* constructor returns; and whenever get_secret dispatches, the cell is
\* populated and the dispatch goes to the backend it holds.
C16_CellAccessUnderLock ==
  [][ /\ \A t \in Tasks :
           /\ pc'[t] \in {"read", "ctor", "get_resource"} => lockHolder' = t
           /\ pc'[t] = "get_resource" =>
                /\ KBS_CLIENT' # None
                /\ target'[t] = KBS_CLIENT'
           /\ (pc[t] = "lock" /\ pc'[t] # "lock" /\ ~Cancelled(t)) =>
                /\ lockHolder = 0
                /\ Head(waitq) = t
      /\ KBS_CLIENT' # KBS_CLIENT =>
           \E t \in Tasks : lockHolder = t /\ pc[t] = "ctor" ]_vars

\* A get_secret call that populated the cell is dispatching under the lock
\* while another call waits for it.
C16_Witness ==
  \E t \in Tasks :
    /\ pc[t] = "get_resource"
    /\ stats[t].ctors = 1
    /\ lockHolder = t
    /\ waitq # <<>>

\* The tokens of the probed line that start with the prefix, in line order.
ProbeParams ==
  (IF AllPlain(probe.pre) THEN <<>> ELSE probe.pre)
    \o (IF probe.has THEN <<Tok(probe.val)>> ELSE <<>>)
    \o (IF AllPlain(probe.post) THEN <<>> ELSE probe.post)

\* C17: when the command line holds several tokens starting with the prefix,
\* the reader's result is the one it gives for the line made of the first of
\* them alone: a malformed first token fails the read whatever follows it, and
\* a well-formed first token is returned whatever follows it.
C17_FirstParameterWins ==
  (Probed /\ Len(ProbeParams) >= 1) =>
    /\ probeOut = ParseCmdline(ProbeParams[1])
    /\ ProbeParams[1] = Tok(<<"b">>) => probeOut = RdErr("MalformedParameter")
    /\ ProbeParams[1] = Tok(<<"b", ":", ":", "b">>)
         => probeOut = RdOk(<<"b">>, <<"b">>)

\* A malformed parameter comes first, two well-formed ones follow, and the
\* read fails.
C17_Witness ==
  /\ Probed
  /\ probe.pre = <<Tok(<<"b">>)>>
  /\ probe.has
  /\ probe.val = <<"a", ":", ":", "a">>
  /\ probe.post = <<Tok(<<"b", ":", ":", "b">>)>>
  /\ probeOut = RdErr("MalformedParameter")

\* What RealClient::new selects for a readable command line: the reader's
\* pair handed to the match.
SelectBackend(f, line) ==
  LET r == get_aa_params_from_cmdline(TRUE, line)
  IN IF r.tag = "ok" THEN Registry(f, r.kbc, r.host) ELSE RegErr(<<>>)

\* Values a call can return that do not come from the command line.
HostFreeVals == {<<>>, <<"c1">>} \cup {r.val : r \in BackendReturns}

\* C18: on a command line naming offline_fs_kbc, whatever its host argument,
\* the selection made is the one made for any other host argument, every
\* constructor invocation is that of the offline backend with no argument,
\* and neither the cell nor a returned value carries the host; the
\* constructors of cc_kbc and online_sev_kbc, and only they, are invoked with
\* the host argument of the command line.
C18_HostIgnoredByOffline ==
  /\ \A i \in CtorIdx :
       /\ ctorLog[i].kind = "OfflineFs" => ctorLog[i].args = <<>>
       /\ ctorLog[i].kind = "Cc" =>
            \E h \in BootHosts : /\ ctorLog[i].args = <<h>>
                                 /\ cmdline = BootLine(CC_KBC, h)
       /\ ctorLog[i].kind = "Sev" =>
            \E h \in BootHosts : /\ ctorLog[i].args = <<h>>
                                 /\ cmdline = BootLine(ONLINE_SEV_KBC, h)
  /\ \A h \in BootHosts :
       cmdline = BootLine(OFFLINE_FS_KBC, h) =>
         /\ \A h2 \in BootHosts :
              SelectBackend(features, BootLine(OFFLINE_FS_KBC, h2))
                = SelectBackend(features, cmdline)
         /\ \A i \in CtorIdx :
              ctorLog[i].kind = "OfflineFs" /\ ctorLog[i].args = <<>>
         /\ KBS_CLIENT.kind \in {"None", "OfflineFs"}
         /\ ret.val \in HostFreeVals

\* The offline backend was selected from a command line with a host argument,
\* constructed without argument, and served a get_secret.
C18_Witness ==
  /\ cmdline = BootLine(OFFLINE_FS_KBC, <<"/", "p">>)
  /\ Len(ctorLog) = 1
  /\ ctorLog[1].args = <<>>
  /\ KBS_CLIENT = Some("OfflineFs", 1)
  /\ ret.tag = "Bytes"

\* C19: under fair scheduling every call of new or get_secret that is in
\* progress eventually returns, and whenever no call is in progress the lock
\* is free and nobody waits for it.
C19_EveryCallReturns ==
  /\ \A t \in Tasks : InProgress(t) ~> ~InProgress(t)
  /\ [](AllReturned => (lockHolder = 0 /\ waitq = <<>>))

\* A call waits for the lock while another call, which found the cell empty
\* after an earlier call had failed, holds it.
C19_Witness ==
  \E t, u \in Tasks :
    /\ lockHolder = t
    /\ pc[t] = "ctor"
    /\ waitq = <<u>>
    /\ pc[u] = "lock"
    /\ ret.tag = "BackendConstructionError"

\* C20: when get_resource fails, the call returns BackendOperationError and
\* the cell still holds the backend the call was dispatched to; the next
\* get_secret call that is granted the lock dispatches to that backend at
\* once, without a read of the command line or a constructor invocation.
C20_BackendKeptAfterFailure ==
  [][ \A t \in Tasks :
        /\ (pc[t] = "get_resource" /\ Returns(t)
              /\ backendRet' \in BackendReturns /\ ~backendRet'.ok) =>
             /\ ret'.tag = "BackendOperationError"
             /\ KBS_CLIENT' # None
             /\ KBS_CLIENT' = KBS_CLIENT
             /\ KBS_CLIENT' = target[t]
        /\ (ret.tag = "BackendOperationError" /\ op[t] = "get_secret"
              /\ pc[t] = "lock" /\ pc'[t] # "lock" /\ ~Cancelled(t)) =>
             /\ pc'[t] = "get_resource"
             /\ target'[t] = KBS_CLIENT
             /\ KBS_CLIENT' = KBS_CLIENT
             /\ readerCalls' = readerCalls
             /\ ctorLog' = ctorLog ]_vars

\* The last call returned BackendOperationError and the next get_secret is
\* in get_resource on the backend in the cell, having read and constructed
\* nothing.
C20_Witness ==
  \E t \in Tasks :
    /\ ret.tag = "BackendOperationError"
    /\ pc[t] = "get_resource"
    /\ stats[t].reads = 0
    /\ stats[t].ctors = 0
    /\ target[t] = KBS_CLIENT
    /\ KBS_CLIENT # None

====
